---- MODULE Spec2Model ----
(***************************************************************************)
(* Ballot validation pipeline of ballot_service (validator.py, models.py,  *)
(* config.py, database.py, main.py).                                       *)
(*                                                                         *)
(* Strings are sequences of one-character strings, so that substring       *)
(* tests, case folding and the regular expressions of the validator are    *)
(* computed character by character.  An optional value is <<>> (None) or   *)
(* <<v>> (a value).                                                        *)
(***************************************************************************)
EXTENDS Integers, Sequences, FiniteSets, TLC

None == <<>>

Some(v) == <<v>>

\* ------------------------------------------------------------------------
\* Character helpers (str.upper, re.IGNORECASE, \s, \d)
\* ------------------------------------------------------------------------
UpperMap ==
    ("a" :> "A") @@ ("b" :> "B") @@ ("c" :> "C") @@ ("d" :> "D") @@ ("e" :> "E") @@ ("f" :> "F")
    @@ ("g" :> "G") @@ ("h" :> "H") @@ ("i" :> "I") @@ ("j" :> "J") @@ ("k" :> "K") @@ ("l" :> "L")
    @@ ("m" :> "M") @@ ("n" :> "N") @@ ("o" :> "O") @@ ("p" :> "P") @@ ("q" :> "Q") @@ ("r" :> "R")
    @@ ("s" :> "S") @@ ("t" :> "T") @@ ("u" :> "U") @@ ("v" :> "V") @@ ("w" :> "W") @@ ("x" :> "X")
    @@ ("y" :> "Y") @@ ("z" :> "Z") @@ ("έ" :> "Έ") @@ ("ή" :> "Ή") @@ ("ί" :> "Ί") @@ ("α" :> "Α")
    @@ ("β" :> "Β") @@ ("γ" :> "Γ") @@ ("δ" :> "Δ") @@ ("ε" :> "Ε") @@ ("ζ" :> "Ζ") @@ ("η" :> "Η")
    @@ ("ι" :> "Ι") @@ ("κ" :> "Κ") @@ ("λ" :> "Λ") @@ ("μ" :> "Μ") @@ ("ν" :> "Ν") @@ ("ο" :> "Ο")
    @@ ("π" :> "Π") @@ ("ρ" :> "Ρ") @@ ("ς" :> "Σ") @@ ("σ" :> "Σ") @@ ("τ" :> "Τ") @@ ("υ" :> "Υ")
    @@ ("φ" :> "Φ") @@ ("ψ" :> "Ψ") @@ ("ω" :> "Ω")

LowerMap ==
    ("A" :> "a") @@ ("B" :> "b") @@ ("C" :> "c") @@ ("D" :> "d") @@ ("E" :> "e") @@ ("F" :> "f")
    @@ ("G" :> "g") @@ ("H" :> "h") @@ ("I" :> "i") @@ ("J" :> "j") @@ ("K" :> "k") @@ ("L" :> "l")
    @@ ("M" :> "m") @@ ("N" :> "n") @@ ("O" :> "o") @@ ("P" :> "p") @@ ("Q" :> "q") @@ ("R" :> "r")
    @@ ("S" :> "s") @@ ("T" :> "t") @@ ("U" :> "u") @@ ("V" :> "v") @@ ("W" :> "w") @@ ("X" :> "x")
    @@ ("Y" :> "y") @@ ("Z" :> "z") @@ ("Έ" :> "έ") @@ ("Ή" :> "ή") @@ ("Ί" :> "ί") @@ ("Α" :> "α")
    @@ ("Β" :> "β") @@ ("Γ" :> "γ") @@ ("Δ" :> "δ") @@ ("Ε" :> "ε") @@ ("Ζ" :> "ζ") @@ ("Η" :> "η")
    @@ ("Ι" :> "ι") @@ ("Κ" :> "κ") @@ ("Λ" :> "λ") @@ ("Μ" :> "μ") @@ ("Ν" :> "ν") @@ ("Ο" :> "ο")
    @@ ("Π" :> "π") @@ ("Ρ" :> "ρ") @@ ("Σ" :> "σ") @@ ("Τ" :> "τ") @@ ("Υ" :> "υ") @@ ("Φ" :> "φ")
    @@ ("Ψ" :> "ψ") @@ ("Ω" :> "ω")

\* str.upper() of one character
UpperChar(c) == IF c \in DOMAIN UpperMap THEN UpperMap[c] ELSE c

\* the case folding re.IGNORECASE compares characters by
LowerChar(c) == IF c \in DOMAIN LowerMap THEN LowerMap[c] ELSE c

\* str.upper()
Upper(s) == [i \in 1..Len(s) |-> UpperChar(s[i])]

Digits == {"0", "1", "2", "3", "4", "5", "6", "7", "8", "9"}

\* the characters \s matches
Whitespace == {" ", "\n", "\t"}

\* `pat` occurs in `t` starting at index i (exact comparison)
OccursAt(pat, t, i) ==
    /\ i >= 1
    /\ i + Len(pat) - 1 <= Len(t)
    /\ \A k \in 1..Len(pat) : t[i + k - 1] = pat[k]

\* `pat` occurs in `t` starting at index i, ignoring case (re.IGNORECASE)
OccursAtIgnoreCase(pat, t, i) ==
    /\ i >= 1
    /\ i + Len(pat) - 1 <= Len(t)
    /\ \A k \in 1..Len(pat) : LowerChar(t[i + k - 1]) = LowerChar(pat[k])

\* Python's `pat in t` for strings (the empty string is in every string)
StrIn(pat, t) == \E i \in 1..(Len(t) + 1) : OccursAt(pat, t, i)

\* str.strip()
RECURSIVE LStrip(_)
LStrip(s) == IF s # <<>> /\ Head(s) \in Whitespace THEN LStrip(Tail(s)) ELSE s

RECURSIVE RStrip(_)
RStrip(s) ==
    IF s # <<>> /\ s[Len(s)] \in Whitespace THEN RStrip(SubSeq(s, 1, Len(s) - 1)) ELSE s

Strip(s) == RStrip(LStrip(s))

\* the least element of a non-empty set of integers
Min(S) == CHOOSE x \in S : \A y \in S : x <= y

\* "sep".join(parts)
RECURSIVE Join(_, _)
Join(sep, parts) ==
    IF parts = <<>> THEN <<>>
    ELSE IF Len(parts) = 1 THEN parts[1]
    ELSE parts[1] \o sep \o Join(sep, Tail(parts))

\* ------------------------------------------------------------------------
\* Configuration (config.py)
\* ------------------------------------------------------------------------
SALT_KEY ==
    <<"C", "H", "A", "N", "G", "E", "_", "M", "E", "_", "I", "N", "_", "P", "R", "O", "D",
      "U", "C", "T", "I", "O", "N", "_", "a", "b", "c", "1", "2", "3", "x", "y", "z">>

ALLOWED_SIGNERS ==
    << <<"H", "e", "l", "l", "e", "n", "i", "c", " ", "R", "e", "p", "u", "b", "l", "i", "c">>,
       <<"H", "E", "L", "L", "E", "N", "I", "C", " ", "R", "E", "P", "U", "B", "L", "I", "C">>,
       <<"M", "i", "n", "i", "s", "t", "r", "y", " ", "o", "f", " ", "D", "i", "g", "i", "t",
         "a", "l", " ", "G", "o", "v", "e", "r", "n", "a", "n", "c", "e">>,
       <<"M", "I", "N", "I", "S", "T", "R", "Y", " ", "O", "F", " ", "D", "I", "G", "I", "T",
         "A", "L", " ", "G", "O", "V", "E", "R", "N", "A", "N", "C", "E">>,
       <<"Ε", "λ", "λ", "η", "ν", "ι", "κ", "ή", " ", "Δ", "η", "μ", "ο", "κ", "ρ", "α", "τ",
         "ί", "α">>,
       <<"Υ", "π", "ο", "υ", "ρ", "γ", "ε", "ί", "ο", " ", "Ψ", "η", "φ", "ι", "α", "κ", "ή",
         "ς", " ", "Δ", "ι", "α", "κ", "υ", "β", "έ", "ρ", "ν", "η", "σ", "η", "ς">>,
       <<"A", "P", "O", "S", "T", "I", "L", "L", "E">> >>

\* ------------------------------------------------------------------------
\* Hashing.  hashlib.sha256(..).hexdigest() is modelled as an injective
\* tagging of its input: equal inputs give equal digests, distinct inputs
\* distinct digests, and a digest is never equal to its input.
\* ------------------------------------------------------------------------
Sha256Hex(data) == <<"sha256:">> \o data

_calculate_file_hash(pdf_bytes) == Sha256Hex(pdf_bytes)

\* an identity column that keeps the secret as it is
_hash_voter_id_raw(afm) == afm

\* a digest of the salt alone
_hash_voter_id_const(afm) == Sha256Hex(SALT_KEY)

_hash_voter_id(afm) == Sha256Hex(afm \o SALT_KEY)

\* ------------------------------------------------------------------------
\* Results (validator.py: RejectionReason, ValidationResult)
\* ------------------------------------------------------------------------
RejectionReason ==
    {"invalid_signature", "unknown_signer", "no_signature", "duplicate_file",
     "invalid_token", "token_not_found", "afm_not_found", "already_voted",
     "vote_choice_not_found", "pdf_read_error"}

\* rejection_reason = None
NoReason == "None"

\* ValidationResult(success, rejection_reason, message, voter_hash, vote_choice,
\* file_hash, signer_name); a message is its fixed text and its formatted argument
ValidationResult(success, reason, message, voter_hash, vote_choice, file_hash, signer_name) ==
    [success |-> success, rejection_reason |-> reason, message |-> message,
     voter_hash |-> voter_hash, vote_choice |-> vote_choice, file_hash |-> file_hash,
     signer_name |-> signer_name]

Msg(text) == <<text, <<>>>>

MsgWith(text, arg) == <<text, arg>>

\* ------------------------------------------------------------------------
\* Text patterns (validator.py: AFM_PATTERN, VOTE_CHOICE_PATTERN*)
\* ------------------------------------------------------------------------
\* (?:AFM|ΑΦΜ|Α\.Φ\.Μ\.|Tax ID), in the order of the alternation
AFM_LABELS ==
    << <<"A", "F", "M">>,
       <<"Α", "Φ", "Μ">>,
       <<"Α", ".", "Φ", ".", "Μ", ".">>,
       <<"T", "a", "x", " ", "I", "D">> >>

\* [:\s]* is greedy and shares no character with \d: the index after the run
RECURSIVE SkipSep(_, _)
SkipSep(t, j) ==
    IF j <= Len(t) /\ t[j] \in (Whitespace \cup {":"}) THEN SkipSep(t, j + 1) ELSE j

\* (\d{9}) at index j
NineDigitsAt(t, j) == j + 8 <= Len(t) /\ \A k \in j..(j + 8) : t[k] \in Digits

\* AFM_PATTERN matched at index i: group(1), or None
AfmMatchAt(t, i) ==
    LET alts == {k \in 1..Len(AFM_LABELS) :
                    /\ OccursAtIgnoreCase(AFM_LABELS[k], t, i)
                    /\ NineDigitsAt(t, SkipSep(t, i + Len(AFM_LABELS[k])))}
    IN  IF alts = {} THEN None
        ELSE LET j == SkipSep(t, i + Len(AFM_LABELS[Min(alts)]))
             IN  Some(SubSeq(t, j, j + 8))

\* AFM_PATTERN.search(text): the leftmost match
_extract_afm(text) ==
    LET hits == {i \in 1..Len(text) : AfmMatchAt(text, i) # None}
    IN  IF hits = {} THEN None ELSE AfmMatchAt(text, Min(hits))

VOTE_FOR == <<"v", "o", "t", "e", " ", "f", "o", "r", " ", "[">>

PSIFIZO == <<"ψ", "η", "φ", "ί", "ζ", "ω">>

PSIFIZO_BRACKET == PSIFIZO \o <<" ", "[">>

GIA == <<"γ", "ι", "α", " ">>

YPER == <<"υ", "π", "έ", "ρ", " ">>

\* prefix \[(.*?)\] matched at index i: the text up to the first "]", which
\* "." (no newline) must be able to cross; group(1), or None
BracketMatchAt(prefix, t, i) ==
    LET s == i + Len(prefix)
        closes == {j \in s..Len(t) : t[j] = "]"}
    IN  IF ~OccursAtIgnoreCase(prefix, t, i) \/ closes = {} THEN None
        ELSE IF \E k \in s..(Min(closes) - 1) : t[k] = "\n" THEN None
        ELSE Some(SubSeq(t, s, Min(closes) - 1))

\* pattern.search(text) for a bracketed pattern: the leftmost match
BracketSearch(prefix, t) ==
    LET hits == {i \in 1..Len(t) : BracketMatchAt(prefix, t, i) # None}
    IN  IF hits = {} THEN None ELSE BracketMatchAt(prefix, t, Min(hits))

\* the index after the longest run of characters outside {".", "\n"} from q
RunEnd(t, q) ==
    Min({k \in q..(Len(t) + 1) : k > Len(t) \/ t[k] \in {".", "\n"}})

\* ψηφίζω[\s:]+([^.\n]+) matched at index i: [\s:]+ is greedy and gives
\* characters back until the group can start; group(1), or None
GrAltMatchAt(t, i) ==
    LET s == i + Len(PSIFIZO)
        e == SkipSep(t, s)
        starts == {q \in (s + 1)..e : q <= Len(t) /\ t[q] \notin {".", "\n"}}
    IN  IF ~OccursAtIgnoreCase(PSIFIZO, t, i) \/ starts = {} THEN None
        ELSE LET q == CHOOSE x \in starts : \A y \in starts : y <= x
             IN  Some(SubSeq(t, q, RunEnd(t, q) - 1))

GrAltSearch(t) ==
    LET hits == {i \in 1..Len(t) : GrAltMatchAt(t, i) # None}
    IN  IF hits = {} THEN None ELSE GrAltMatchAt(t, Min(hits))

\* (.+?)(?:\.|$) from index g: the shortest non-empty run without newline that
\* is followed by "." or by the end of the text ($ also matches before a final
\* newline); the group, or None
LazyGroupAt(t, g) ==
    LET ends == {e \in g..Len(t) :
                    /\ \A k \in g..e : t[k] # "\n"
                    /\ \/ e = Len(t)
                       \/ t[e + 1] = "."
                       \/ (e + 1 = Len(t) /\ t[e + 1] = "\n")}
    IN  IF ends = {} THEN None ELSE Some(SubSeq(t, g, Min(ends)))

\* ψηφίζω (?:για |υπέρ )?(.+?)(?:\.|$) matched at index i; group(1), or None
GrOtiMatchAt(t, i) ==
    LET s == i + Len(PSIFIZO) + 1
        withGia == IF OccursAtIgnoreCase(GIA, t, s) THEN LazyGroupAt(t, s + Len(GIA)) ELSE None
        withYper == IF OccursAtIgnoreCase(YPER, t, s) THEN LazyGroupAt(t, s + Len(YPER)) ELSE None
    IN  IF ~OccursAtIgnoreCase(PSIFIZO \o <<" ">>, t, i) THEN None
        ELSE IF withGia # None THEN withGia
        ELSE IF withYper # None THEN withYper
        ELSE LazyGroupAt(t, s)

GrOtiSearch(t) ==
    LET hits == {i \in 1..Len(t) : GrOtiMatchAt(t, i) # None}
    IN  IF hits = {} THEN None ELSE GrOtiMatchAt(t, Min(hits))

\* the sanity check of the two flexible Greek patterns: `choice and len(choice) < 200`
ChoiceLenLimit == 200

\* _extract_vote_choice(text): the stripped choice, or None
_extract_vote_choice(text) ==
    LET m1 == BracketSearch(VOTE_FOR, text)
        m2 == BracketSearch(PSIFIZO_BRACKET, text)
        m3 == GrAltSearch(text)
        m4 == GrOtiSearch(text)
        ok(m) == m # None /\ Strip(m[1]) # <<>> /\ Len(Strip(m[1])) < ChoiceLenLimit
    IN  IF m1 # None THEN Some(Strip(m1[1]))
        ELSE IF m2 # None THEN Some(Strip(m2[1]))
        ELSE IF ok(m3) THEN Some(Strip(m3[1]))
        ELSE IF ok(m4) THEN Some(Strip(m4[1]))
        ELSE None

\* ------------------------------------------------------------------------
\* Signer trust (validator.py: _gate1_verify_signature and helpers)
\* ------------------------------------------------------------------------
\* _extract_signer_name(cert), approach 1: str(cert.human_friendly)
_extract_signer_name(cert) == cert.human_friendly

\* an allow-list test that asks for an allowed name inside the signer name only
_is_allowed_signer_oneway(signer_name) ==
    \E k \in 1..Len(ALLOWED_SIGNERS) : StrIn(Upper(ALLOWED_SIGNERS[k]), Upper(signer_name))

\* _is_allowed_signer(signer_name)
_is_allowed_signer(signer_name) ==
    \E k \in 1..Len(ALLOWED_SIGNERS) :
        \/ StrIn(Upper(ALLOWED_SIGNERS[k]), Upper(signer_name))
        \/ StrIn(Upper(signer_name), Upper(ALLOWED_SIGNERS[k]))

\* The outcomes of validate_pdf_signature for one embedded signature: a status
\* (valid, intact, signing_cert) or a raised exception.
SigStatus(valid, intact, signing_cert) ==
    [raises |-> "None", valid |-> valid, intact |-> intact, signing_cert |-> signing_cert]

SigRaises(exc) ==
    [raises |-> exc, valid |-> FALSE, intact |-> FALSE, signing_cert |-> None]

Cert(name) == Some([human_friendly |-> name])

\* the loop `for sig in sig_fields` from signature k on, with the signers found
\* so far: [raised, valid_signer, found_signers]
RECURSIVE ScanSignatures(_, _, _)
ScanSignatures(sigs, k, found) ==
    IF k > Len(sigs) THEN [raised |-> FALSE, valid_signer |-> None, found_signers |-> found]
    ELSE LET sig == sigs[k] IN
        IF sig.raises = "SignatureValidationError" THEN ScanSignatures(sigs, k + 1, found)
        ELSE IF sig.raises # "None"
            THEN [raised |-> TRUE, valid_signer |-> None, found_signers |-> found]
        ELSE IF sig.valid /\ sig.intact /\ sig.signing_cert # None
            THEN LET signer_name == _extract_signer_name(sig.signing_cert[1]) IN
                 IF _is_allowed_signer(signer_name)
                 THEN [raised |-> FALSE, valid_signer |-> Some(signer_name),
                       found_signers |-> Append(found, signer_name)]
                 ELSE ScanSignatures(sigs, k + 1, Append(found, signer_name))
        ELSE ScanSignatures(sigs, k + 1, found)

\* a signature gate whose rejection names only the last signer it found
_gate1_verify_signature_lastonly(pdf) ==
    IF ~pdf.reader_ok
    THEN ValidationResult(FALSE, "invalid_signature", Msg("Signature verification failed"),
                          None, None, None, None)
    ELSE IF pdf.sigs = <<>>
    THEN ValidationResult(FALSE, "no_signature",
                          Msg("PDF does not contain any digital signatures"),
                          None, None, None, None)
    ELSE LET scan == ScanSignatures(pdf.sigs, 1, <<>>) IN
        IF scan.raised
        THEN ValidationResult(FALSE, "invalid_signature",
                              Msg("Signature verification failed"), None, None, None, None)
        ELSE IF scan.valid_signer # None /\ scan.valid_signer[1] # <<>>
        THEN ValidationResult(TRUE, NoReason, Msg("Valid government signature verified"),
                              None, None, None, scan.valid_signer)
        ELSE ValidationResult(FALSE, "unknown_signer",
                 MsgWith("PDF signature is not from a recognized government authority. Found: ",
                         IF scan.found_signers # <<>>
                         THEN scan.found_signers[Len(scan.found_signers)]
                         ELSE <<"N", "o", "n", "e">>),
                 None, None, None, None)

\* _gate1_verify_signature(pdf_bytes)
_gate1_verify_signature(pdf) ==
    IF ~pdf.reader_ok
    THEN ValidationResult(FALSE, "invalid_signature", Msg("Signature verification failed"),
                          None, None, None, None)
    ELSE IF pdf.sigs = <<>>
    THEN ValidationResult(FALSE, "no_signature",
                          Msg("PDF does not contain any digital signatures"),
                          None, None, None, None)
    ELSE LET scan == ScanSignatures(pdf.sigs, 1, <<>>) IN
        IF scan.raised
        THEN ValidationResult(FALSE, "invalid_signature",
                              Msg("Signature verification failed"), None, None, None, None)
        ELSE IF scan.valid_signer # None /\ scan.valid_signer[1] # <<>>
        THEN ValidationResult(TRUE, NoReason, Msg("Valid government signature verified"),
                              None, None, None, scan.valid_signer)
        ELSE ValidationResult(FALSE, "unknown_signer",
                 MsgWith("PDF signature is not from a recognized government authority. Found: ",
                         IF scan.found_signers # <<>>
                         THEN Join(<<",", " ">>, scan.found_signers)
                         ELSE <<"N", "o", "n", "e">>),
                 None, None, None, None)

\* ------------------------------------------------------------------------
\* Text extraction (validator.py: _extract_text)
\* ------------------------------------------------------------------------
\* the non-empty page texts, in page order
RECURSIVE NonEmptyPages(_)
NonEmptyPages(pages) ==
    IF pages = <<>> THEN <<>>
    ELSE IF Head(pages) # <<>> THEN <<Head(pages)>> \o NonEmptyPages(Tail(pages))
    ELSE NonEmptyPages(Tail(pages))

\* _extract_text(pdf_bytes), for a document pypdf can read
_extract_text(pdf) == Join(<<"\n">>, NonEmptyPages(pdf.pages))

\* ------------------------------------------------------------------------
\* The durable store (models.py: Vote) and the gates that read it
\* ------------------------------------------------------------------------
\* a row whose two digest columns are exchanged
Vote_swapped(id, poll_id, voter_hash, file_hash, vote_choice) ==
    [id |-> id, poll_id |-> poll_id, voter_hash |-> file_hash, file_hash |-> voter_hash,
     vote_choice |-> vote_choice]

Vote(id, poll_id, voter_hash, file_hash, vote_choice) ==
    [id |-> id, poll_id |-> poll_id, voter_hash |-> voter_hash, file_hash |-> file_hash,
     vote_choice |-> vote_choice]

\* id = Column(Integer, primary_key=True, autoincrement=True): on the default
\* SQLite store the next rowid is one more than the largest rowid in the table
NextId(db) ==
    IF db = {} THEN 1 ELSE (CHOOSE x \in {r.id : r \in db} : \A r \in db : r.id <= x) + 1

\* the constraints of the votes table an INSERT of `row` would violate:
\* file_hash is unique=True; ix_votes_poll_voter is a plain (non-unique) Index
ConstraintViolated(db, row) == \E r \in db : r.file_hash = row.file_hash

\* a fingerprint guard that lets a duplicate pass and keeps the reason as a flag
_gate2_check_uniqueness_flagged(db, file_hash) ==
    ValidationResult(TRUE,
                     IF \E r \in db : r.file_hash = file_hash THEN "duplicate_file" ELSE NoReason,
                     Msg("File is unique"), None, None, Some(file_hash), None)

\* _gate2_check_uniqueness(file_hash) against the committed rows `db`
_gate2_check_uniqueness(db, file_hash) ==
    IF \E r \in db : r.file_hash = file_hash
    THEN ValidationResult(FALSE, "duplicate_file",
                          Msg("This declaration has already been submitted"),
                          None, None, Some(file_hash), None)
    ELSE ValidationResult(TRUE, NoReason, Msg("File is unique"),
                          None, None, Some(file_hash), None)

\* a token gate without the debug bypass
_gate3_verify_token_nobypass(debug, text, poll_token) ==
    IF poll_token = <<>>
    THEN ValidationResult(FALSE, "invalid_token", Msg("Poll token is required"),
                          None, None, None, None)
    ELSE IF ~StrIn(poll_token, text)
    THEN ValidationResult(FALSE, "token_not_found",
                          Msg("Security token not found in declaration"),
                          None, None, None, None)
    ELSE ValidationResult(TRUE, NoReason, Msg("Token verified"), None, None, None, None)

\* a token gate that looks for the characters of the token, not for the token
_gate3_verify_token_anywhere(debug, text, poll_token) ==
    IF poll_token = <<>>
    THEN ValidationResult(FALSE, "invalid_token", Msg("Poll token is required"),
                          None, None, None, None)
    ELSE IF \E k \in 1..Len(poll_token) : ~StrIn(<<poll_token[k]>>, text)
    THEN ValidationResult(FALSE, "token_not_found",
                          Msg("Security token not found in declaration"),
                          None, None, None, None)
    ELSE ValidationResult(TRUE, NoReason, Msg("Token verified"), None, None, None, None)

\* _gate3_verify_token(text, poll_token) under settings.DEBUG = debug
_gate3_verify_token(debug, text, poll_token) ==
    IF poll_token = <<>>
    THEN ValidationResult(FALSE, "invalid_token", Msg("Poll token is required"),
                          None, None, None, None)
    ELSE IF debug
    THEN ValidationResult(TRUE, NoReason, Msg("Token check bypassed in debug mode"),
                          None, None, None, None)
    ELSE IF ~StrIn(poll_token, text)
    THEN ValidationResult(FALSE, "token_not_found",
                          Msg("Security token not found in declaration"),
                          None, None, None, None)
    ELSE ValidationResult(TRUE, NoReason, Msg("Token verified"), None, None, None, None)

\* a query of gate 4 that does not filter on the poll
Gate4Matches_anypoll(db, poll_id, voter_hash) == {r \in db : r.voter_hash = voter_hash}

\* the rows the query of gate 4 can return with .first()
Gate4Matches(db, poll_id, voter_hash) ==
    {r \in db : r.poll_id = poll_id /\ r.voter_hash = voter_hash}

\* ------------------------------------------------------------------------
\* Submissions: the documents, polls and tokens a caller may send
\* ------------------------------------------------------------------------
Pdf(pdf_bytes, reader_ok, sigs, text_ok, pages) ==
    [pdf_bytes |-> pdf_bytes, reader_ok |-> reader_ok, sigs |-> sigs, text_ok |-> text_ok,
     pages |-> pages]

HELLENIC == <<"H", "e", "l", "l", "e", "n", "i", "c", " ", "R", "e", "p", "u", "b", "l", "i", "c">>

GovSig == <<SigStatus(TRUE, TRUE, Cert(HELLENIC))>>

AFM_X == <<"A", "F", "M", ":", " ", "1", "2", "3", "4", "5", "6", "7", "8", "9">>

TAXID_Y == <<"T", "a", "x", " ", "I", "D", " ", "9", "8", "7", "6", "5", "4", "3", "2", "1">>

VOTE_A == <<"I", " ", "v", "o", "t", "e", " ", "f", "o", "r", " ", "[", "A", "]">>

VOTE_B == <<"I", " ", "v", "o", "t", "e", " ", "f", "o", "r", " ", "[", "B", "]">>

TOK1 == <<"t", "o", "k", "1">>

SP == <<" ">>

DocA1 == Pdf(<<"a", "1">>, TRUE, GovSig, TRUE, <<AFM_X, VOTE_A \o SP \o TOK1>>)

DocA2 == Pdf(<<"a", "2">>, TRUE, GovSig, TRUE, <<AFM_X, VOTE_B \o SP \o TOK1>>)

DocA3 == Pdf(<<"a", "3">>, TRUE, GovSig, TRUE, <<AFM_X, TOK1>>)

DocB1 == Pdf(<<"b", "1">>, TRUE, GovSig, TRUE, <<TAXID_Y \o SP \o VOTE_A \o SP \o TOK1>>)

DocNoSig == Pdf(<<"n", "s">>, TRUE, <<>>, TRUE, <<AFM_X, VOTE_A \o SP \o TOK1>>)

DocUnreadable == Pdf(<<"u", "r">>, TRUE, GovSig, FALSE, <<>>)

DocNoAfm == Pdf(<<"n", "a">>, TRUE, GovSig, TRUE, <<VOTE_A \o SP \o TOK1>>)

DocNoTok == Pdf(<<"n", "t">>, TRUE, GovSig, TRUE, <<TAXID_Y \o SP \o VOTE_B>>)

\* a bracketed choice one character longer than the sanity check allows
LongChoice == [i \in 1..(ChoiceLenLimit + 1) |-> "z"]

DocLong == Pdf(<<"l", "g">>, TRUE, GovSig, TRUE,
               <<TAXID_Y \o SP \o VOTE_FOR \o LongChoice \o <<"]">> \o SP \o TOK1>>)

Docs == {DocA1, DocA2, DocA3, DocB1, DocNoSig, DocUnreadable, DocNoAfm, DocNoTok, DocLong}

\* the payloads a caller may upload
Payloads == {d.pdf_bytes : d \in Docs}

\* what PdfFileReader and PdfReader make of a payload
Parse(pdf_bytes) == CHOOSE d \in Docs : d.pdf_bytes = pdf_bytes

Polls == {"pollA", "pollB"}

Tokens == {<<>>, TOK1}

Request(pdf_bytes, poll_id, poll_token) ==
    [pdf_bytes |-> pdf_bytes, poll_id |-> poll_id, poll_token |-> poll_token]

\* the requests of one poll: every payload with every token
Requests == {Request(b, "pollA", t) : b \in Payloads, t \in Tokens}

\* the number of requests served in one behaviour
MaxCalls == 3

\* the server processes that serve requests against the same database.  Within
\* one event loop validate() runs without suspension (gate 1 awaits nothing);
\* two processes (workers, replicas) interleave at every access to the store.
Procs == {1, 2}

\* ------------------------------------------------------------------------
\* State
\* ------------------------------------------------------------------------
VARIABLES
    store,              \* the committed rows of the votes table
    allow_vote_update,  \* settings.ALLOW_VOTE_UPDATE
    debug,              \* settings.DEBUG
    pc,                 \* per handler: where validate() is
    loc,                \* per handler: the arguments and locals of validate()
    result,             \* per handler: what validate() returned or raised
    log,                \* per handler: the checks run and store accesses made, in order
    calls,              \* requests started so far
    accepted,           \* per payload: how many calls have returned Accepted for it
    probe               \* a call of one method outside validate(): its arguments and result

vars == <<store, allow_vote_update, debug, pc, loc, result, log, calls, accepted, probe>>

\* no such call has been made
NoProbe == [fn |-> "none", input |-> <<>>, output |-> None]

NoLoc ==
    [pdf_bytes |-> None, poll_id |-> "None", poll_token |-> None, signer_name |-> None,
     file_hash |-> None, text |-> None, voter_hash |-> None, existing |-> None,
     vote_choice |-> None,
     \* observations of the call, not locals of validate(): the store when the
     \* call started, whether no other call was running then or has started
     \* since, and whether a call with the same payload had returned Accepted
     \* before it started
     store0 |-> {}, alone |-> FALSE, after_accept |-> FALSE]

Running(q) == pc[q] \notin {"idle", "done"}

NoResult == [raised |-> "None", value |-> None]

Returned(r) == [raised |-> "None", value |-> Some(r)]

Raised(exc) == [raised |-> exc, value |-> None]

\* one entry of log: the check, whether it passed, and its store access
Entry(check, ok, db) == [check |-> check, ok |-> ok, db |-> db]

Init ==
    /\ store = {}
    /\ allow_vote_update \in BOOLEAN
    /\ debug = FALSE
    /\ pc = [p \in Procs |-> "idle"]
    /\ loc = [p \in Procs |-> NoLoc]
    /\ result = [p \in Procs |-> NoResult]
    /\ log = [p \in Procs |-> <<>>]
    /\ calls = 0
    /\ accepted = [b \in Payloads |-> 0]
    /\ probe = NoProbe

\* The gates and extractors that are pure functions of the payload or of the
\* text, tabulated once over the payloads callers may send.
Gate1Table == [b \in Payloads |-> _gate1_verify_signature(Parse(b))]

TextTable ==
    [b \in Payloads |-> IF Parse(b).text_ok THEN Some(_extract_text(Parse(b))) ELSE None]

Texts == {TextTable[b][1] : b \in {x \in Payloads : TextTable[x] # None}}

AfmTable == [t \in Texts |-> _extract_afm(t)]

ChoiceTable == [t \in Texts |-> _extract_vote_choice(t)]

\* The position, locals, outcome and log of one handler, as one value: the
\* steps of validate() that touch no shared state are functions on it.
Handler(p) == [pc |-> pc[p], loc |-> loc[p], result |-> result[p], log |-> log[p]]

\* a check failed: validate() returns its result
Reject(h, r, entry) ==
    [h EXCEPT !.pc = "done", !.result = Returned(r), !.log = Append(@, entry)]

\* a check passed: validate() goes on to `next`
Pass(h, next, entry) == [h EXCEPT !.pc = next, !.log = Append(@, entry)]

\* validate(): Gate 1
StepGate1(h) ==
    LET gate1_result == Gate1Table[h.loc.pdf_bytes[1]] IN
    IF ~gate1_result.success
    THEN Reject(h, gate1_result, Entry("signature", FALSE, "none"))
    ELSE [Pass(h, "gate2", Entry("signature", TRUE, "none"))
             EXCEPT !.loc.signer_name = gate1_result.signer_name]

\* validate(): text extraction
StepExtractText(h) ==
    IF TextTable[h.loc.pdf_bytes[1]] = None
    THEN Reject(h, ValidationResult(FALSE, "pdf_read_error",
                                    Msg("Failed to extract text from PDF"),
                                    None, None, None, None),
                Entry("text", FALSE, "none"))
    ELSE [Pass(h, "gate3", Entry("text", TRUE, "none"))
             EXCEPT !.loc.text = TextTable[h.loc.pdf_bytes[1]]]

\* a validate() that records a failed token check and runs on to gate 4
StepGate3_noreturn(debug_mode, h) ==
    LET gate3_result == _gate3_verify_token(debug_mode, h.loc.text[1], h.loc.poll_token[1]) IN
    Pass(h, "gate4", Entry("token", gate3_result.success, "none"))

\* validate(): Gate 3
StepGate3(debug_mode, h) ==
    LET gate3_result == _gate3_verify_token(debug_mode, h.loc.text[1], h.loc.poll_token[1]) IN
    IF ~gate3_result.success
    THEN Reject(h, gate3_result, Entry("token", FALSE, "none"))
    ELSE Pass(h, "gate4", Entry("token", TRUE, "none"))

\* a validate() that goes on to record the vote when no choice was found
StepChoice_lenient(h) ==
    LET vote_choice == ChoiceTable[h.loc.text[1]] IN
    IF vote_choice = None \/ vote_choice[1] = <<>>
    THEN [Pass(h, "record", Entry("choice", FALSE, "none")) EXCEPT !.loc.vote_choice = Some(<<>>)]
    ELSE [Pass(h, "record", Entry("choice", TRUE, "none")) EXCEPT !.loc.vote_choice = vote_choice]

\* validate(): vote choice extraction
StepChoice(h) ==
    LET vote_choice == ChoiceTable[h.loc.text[1]] IN
    IF vote_choice = None \/ vote_choice[1] = <<>>
    THEN Reject(h, ValidationResult(FALSE, "vote_choice_not_found",
                                    Msg("Could not find vote choice in declaration"),
                                    None, None, None, None),
                Entry("choice", FALSE, "none"))
    ELSE [Pass(h, "record", Entry("choice", TRUE, "none")) EXCEPT !.loc.vote_choice = vote_choice]

\* the positions of validate() whose next step touches no shared state
LocalPcs == {"gate1", "text", "gate3", "choice"}

\* validate() runs on from h until it returns or reaches a store access: a
\* handler is one sequential computation, and only its store accesses
\* interleave with those of the other handlers
RECURSIVE RunLocal(_, _)
RunLocal(debug_mode, h) ==
    IF h.pc = "gate1" THEN RunLocal(debug_mode, StepGate1(h))
    ELSE IF h.pc = "text" THEN RunLocal(debug_mode, StepExtractText(h))
    ELSE IF h.pc = "gate3" THEN RunLocal(debug_mode, StepGate3(debug_mode, h))
    ELSE IF h.pc = "choice" THEN RunLocal(debug_mode, StepChoice(h))
    ELSE h

\* handler p continues as h
Becomes(p, h) ==
    /\ pc' = [pc EXCEPT ![p] = h.pc]
    /\ loc' = [loc EXCEPT ![p] = h.loc]
    /\ result' = [result EXCEPT ![p] = h.result]
    /\ log' = [log EXCEPT ![p] = h.log]

\* main.py validate_ballot: a request arrives, the first idle handler takes it
\* and calls validate(), which runs up to its first store access
Call(p, requests) ==
    /\ pc[p] = "idle"
    /\ calls < MaxCalls
    /\ \A q \in Procs : q < p => pc[q] # "idle"
    /\ \E req \in requests :
          LET h == RunLocal(debug,
                     [pc |-> "gate1",
                      loc |-> [NoLoc EXCEPT !.pdf_bytes = Some(req.pdf_bytes),
                                            !.poll_id = req.poll_id,
                                            !.poll_token = Some(req.poll_token),
                                            !.store0 = store,
                                            !.alone = \A o \in Procs \ {p} : ~Running(o),
                                            !.after_accept = accepted[req.pdf_bytes] > 0],
                      result |-> NoResult,
                      log |-> <<>>])
          IN  /\ pc' = [pc EXCEPT ![p] = h.pc]
              /\ result' = [result EXCEPT ![p] = h.result]
              /\ log' = [log EXCEPT ![p] = h.log]
              /\ loc' = [q \in Procs |->
                           IF q = p THEN h.loc
                           ELSE IF pc[q] # "idle" THEN [loc[q] EXCEPT !.alone = FALSE]
                           ELSE loc[q]]
    /\ calls' = calls + 1
    /\ UNCHANGED <<store, allow_vote_update, debug, accepted, probe>>

validate_ballot(p) == Call(p, Requests)

\* a Gate 2 that looks the fingerprint up among the records of the poll only
StepGate2_perpoll(p) ==
    /\ pc[p] = "gate2"
    /\ LET h == Handler(p)
           file_hash == _calculate_file_hash(h.loc.pdf_bytes[1])
           gate2_result ==
               _gate2_check_uniqueness({r \in store : r.poll_id = h.loc.poll_id}, file_hash)
       IN  IF ~gate2_result.success
           THEN Becomes(p, Reject(h, gate2_result, Entry("fingerprint", FALSE, "read")))
           ELSE Becomes(p, RunLocal(debug,
                    [Pass(h, "text", Entry("fingerprint", TRUE, "read"))
                        EXCEPT !.loc.file_hash = Some(file_hash)]))
    /\ UNCHANGED <<store, allow_vote_update, debug, calls, accepted, probe>>

\* validate(): Gate 2, the lookup of the fingerprint
StepGate2(p) ==
    /\ pc[p] = "gate2"
    /\ LET h == Handler(p)
           file_hash == _calculate_file_hash(h.loc.pdf_bytes[1])
           gate2_result == _gate2_check_uniqueness(store, file_hash)
       IN  IF ~gate2_result.success
           THEN Becomes(p, Reject(h, gate2_result, Entry("fingerprint", FALSE, "read")))
           ELSE Becomes(p, RunLocal(debug,
                    [Pass(h, "text", Entry("fingerprint", TRUE, "read"))
                        EXCEPT !.loc.file_hash = Some(file_hash)]))
    /\ UNCHANGED <<store, allow_vote_update, debug, calls, accepted, probe>>

\* validate(): Gate 4, up to the query for an existing vote
StepGate4Query(p) ==
    /\ pc[p] = "gate4"
    /\ LET h == Handler(p)
           afm == AfmTable[h.loc.text[1]]
       IN  IF afm = None
           THEN Becomes(p, Reject(h, ValidationResult(FALSE, "afm_not_found",
                                         Msg("Could not find AFM/Tax ID in the declaration"),
                                         None, None, None, None),
                                  Entry("identity", FALSE, "none")))
           ELSE LET voter_hash == _hash_voter_id(afm[1])
                    matches == Gate4Matches(store, h.loc.poll_id, voter_hash)
                    hv == [h EXCEPT !.loc.voter_hash = Some(voter_hash)]
                IN  IF matches = {}
                    THEN Becomes(p, RunLocal(debug,
                                       Pass(hv, "choice", Entry("identity", TRUE, "read"))))
                    ELSE IF allow_vote_update
                    THEN \E existing_vote \in matches :
                            Becomes(p, [hv EXCEPT !.pc = "gate4_commit",
                                                  !.loc.existing = Some(existing_vote.id)])
                    ELSE Becomes(p, Reject(h, ValidationResult(FALSE, "already_voted",
                                                  Msg("You have already voted in this poll"),
                                                  Some(voter_hash), None, None, None),
                                           Entry("identity", FALSE, "read")))
    /\ UNCHANGED <<store, allow_vote_update, debug, calls, accepted, probe>>

\* a DELETE that removes no row
DeleteById_none(db, id) == db

\* a DELETE that blanks the identity of the row and keeps the row
DeleteById_blank(db, id) ==
    {IF r.id = id THEN [r EXCEPT !.voter_hash = <<>>] ELSE r : r \in db}

\* the rows left by DELETE FROM votes WHERE id = :id
DeleteById(db, id) == {r \in db : r.id # id}

\* validate(): Gate 4 under the update policy: db.delete(existing_vote); db.commit()
StepGate4Commit(p) ==
    /\ pc[p] = "gate4_commit"
    /\ store' = DeleteById(store, loc[p].existing[1])
    /\ Becomes(p, RunLocal(debug,
                     Pass(Handler(p), "choice", Entry("identity", TRUE, "read+write"))))
    /\ UNCHANGED <<allow_vote_update, debug, calls, accepted, probe>>

\* validate(): _record_vote (add, commit) and the final return; a violated
\* constraint makes commit raise IntegrityError, which validate() does not catch
StepRecordVote(p) ==
    /\ pc[p] = "record"
    /\ LET vote == Vote(NextId(store), loc[p].poll_id, loc[p].voter_hash[1],
                        loc[p].file_hash[1], loc[p].vote_choice[1])
       IN  IF ConstraintViolated(store, vote)
           THEN /\ result' = [result EXCEPT ![p] = Raised("IntegrityError")]
                /\ log' = [log EXCEPT ![p] = Append(@, Entry("commit", FALSE, "none"))]
                /\ UNCHANGED <<store, accepted>>
           ELSE /\ store' = store \cup {vote}
                /\ result' = [result EXCEPT ![p] =
                       Returned(ValidationResult(TRUE, NoReason, Msg("Vote successfully recorded"),
                                                 loc[p].voter_hash, loc[p].vote_choice,
                                                 loc[p].file_hash, loc[p].signer_name))]
                /\ log' = [log EXCEPT ![p] = Append(@, Entry("commit", TRUE, "write"))]
                /\ accepted' = [accepted EXCEPT ![loc[p].pdf_bytes[1]] = @ + 1]
    /\ pc' = [pc EXCEPT ![p] = "done"]
    /\ UNCHANGED <<allow_vote_update, debug, loc, calls, probe>>

\* main.py validate_ballot: the outcome is mapped to the HTTP response and the
\* request ends
Respond(p) ==
    /\ pc[p] = "done"
    /\ pc' = [pc EXCEPT ![p] = "idle"]
    /\ loc' = [loc EXCEPT ![p] = NoLoc]
    /\ result' = [result EXCEPT ![p] = NoResult]
    /\ log' = [log EXCEPT ![p] = <<>>]
    /\ UNCHANGED <<store, allow_vote_update, debug, calls, accepted, probe>>

Next ==
    \E p \in Procs :
        \/ validate_ballot(p)
        \/ StepGate2(p)
        \/ StepGate4Query(p)
        \/ StepGate4Commit(p)
        \/ StepRecordVote(p)
        \/ Respond(p)

Spec == Init /\ [][Next]_vars

\* ------------------------------------------------------------------------
\* Properties
\* ------------------------------------------------------------------------
Done(p) == pc[p] = "done"

Returns(p) == Done(p) /\ result[p].raised = "None"

Accepted(p) == Returns(p) /\ result[p].value[1].success

Rejected(p) == Returns(p) /\ ~result[p].value[1].success

RejectedWith(p, reason) == Rejected(p) /\ result[p].value[1].rejection_reason = reason

SigPassed(p) == log[p] # <<>> /\ log[p][1].ok

SamePair(r1, r2) == r1.poll_id = r2.poll_id /\ r1.voter_hash = r2.voter_hash

\* the order in which validate() runs its checks
CheckOrder == <<"signature", "fingerprint", "text", "token", "identity", "choice", "commit">>

Pos(check) == CHOOSE i \in 1..Len(CheckOrder) : CheckOrder[i] = check

\* the check a rejection reason belongs to
CheckOf(reason) ==
    CASE reason \in {"no_signature", "unknown_signer", "invalid_signature"} -> "signature"
      [] reason = "duplicate_file" -> "fingerprint"
      [] reason = "pdf_read_error" -> "text"
      [] reason \in {"invalid_token", "token_not_found"} -> "token"
      [] reason \in {"afm_not_found", "already_voted"} -> "identity"
      [] reason = "vote_choice_not_found" -> "choice"

\* the reasons decided by the request alone; the other two depend on the store
PureReasons == RejectionReason \ {"duplicate_file", "already_voted"}

\* what the request of handler p fails on its own, whatever the store holds
PureFails(p, check) ==
    LET b == loc[p].pdf_bytes[1]
        t == TextTable[b][1]
    IN  CASE check = "signature" -> ~Gate1Table[b].success
          [] check = "text" -> TextTable[b] = None
          [] check = "token" -> loc[p].poll_token[1] = <<>>
                                \/ (~debug /\ ~StrIn(loc[p].poll_token[1], t))
          [] check = "identity" -> AfmTable[t] = None
          [] check = "choice" -> ChoiceTable[t] = None \/ ChoiceTable[t][1] = <<>>
          [] OTHER -> FALSE

\* C1: validate runs signature, fingerprint, text, token, identity, choice and
\* commit in this order and stops at the first check that fails: the checks
\* logged are a prefix of the order, none follows a failed one (so no later
\* lookup or write is made), the rejection reason is one of the last check
\* run, and every check before it passes on the request
C1_ShortCircuitInOrder ==
    \A p \in Procs :
        LET l == log[p] IN
        /\ Len(l) <= Len(CheckOrder)
        /\ \A i \in 1..Len(l) : l[i].check = CheckOrder[i]
        /\ \A i \in 1..(Len(l) - 1) : l[i].ok
        /\ Rejected(p) =>
              LET reason == result[p].value[1].rejection_reason IN
              /\ l # <<>>
              /\ ~l[Len(l)].ok
              /\ reason \in RejectionReason
              /\ l[Len(l)].check = CheckOf(reason)
              /\ \A i \in 1..(Len(l) - 1) : ~PureFails(p, l[i].check)
              /\ reason \in PureReasons => PureFails(p, CheckOf(reason))

\* C1 witness: a payload that is an exact repeat and whose identity has a vote
\* in the poll was rejected, with the update policy off
C1_RepeatOfVoter ==
    \E p \in Procs :
        /\ ~allow_vote_update
        /\ RejectedWith(p, "duplicate_file")
        /\ Gate4Matches(store, loc[p].poll_id,
                        _hash_voter_id(AfmTable[TextTable[loc[p].pdf_bytes[1]][1]][1])) # {}

\* no two records of the store have the same content fingerprint (holds: the
\* column file_hash is unique=True)
FingerprintUnique ==
    \A r1, r2 \in store : r1.file_hash = r2.file_hash => r1 = r2

\* C2: no two records of the store have the same content fingerprint, and of
\* two concurrent calls with the same bytes that both started before either
\* was accepted (so both pass the fingerprint lookup) at most one commits
C2_FingerprintUniqueOneCommits ==
    /\ FingerprintUnique
    /\ \A p, q \in Procs :
          (/\ p # q
           /\ Accepted(p) /\ ~loc[p].after_accept
           /\ Done(q) /\ ~loc[q].after_accept
           /\ loc[q].pdf_bytes = loc[p].pdf_bytes) => ~Accepted(q)

\* C3: with the update policy off, no two records share (poll id, identity hash)
C3_PollIdentityUnique ==
    ~allow_vote_update => \A r1, r2 \in store : SamePair(r1, r2) => r1 = r2

\* C4: under the update policy a (poll, identity) pair that has a record never
\* has none in the next committed state of the store
C4_NoEmptyWindow ==
    [][allow_vote_update =>
          \A r \in store : Gate4Matches(store', r.poll_id, r.voter_hash) # {}]_vars

\* C5: a step of the identity gate leaves the committed store as it was
C5_Gate4DoesNotWrite ==
    [][\A p \in Procs :
          (pc[p] \in {"gate4", "gate4_commit"} /\ pc'[p] # pc[p]) => store' = store]_vars

\* C6: a call that ran alone and did not end Accepted leaves the store as it
\* was when the call started
C6_NotAcceptedLeavesStore ==
    \A p \in Procs : (Done(p) /\ loc[p].alone /\ ~Accepted(p)) => store = loc[p].store0

\* C7: under either policy, a call started after a call with the same payload
\* was Accepted, and passing the signature gate, is rejected DUPLICATE_FILE,
\* and no payload is accepted twice
C7_NeverAcceptedTwice ==
    /\ \A p \in Procs :
          (Done(p) /\ loc[p].after_accept /\ SigPassed(p)) => RejectedWith(p, "duplicate_file")
    /\ \A b \in Payloads : accepted[b] <= 1

\* C8: a call whose insert violated a uniqueness constraint returns Rejected
\* with DUPLICATE_FILE or ALREADY_VOTED
C8_ConstraintViolationRemapped ==
    \A p \in Procs :
        (Done(p) /\ log[p] # <<>> /\ log[p][Len(log[p])] = Entry("commit", FALSE, "none"))
            => (RejectedWith(p, "duplicate_file") \/ RejectedWith(p, "already_voted"))

\* the identity hash of the payload of handler p
IdentityOf(p) == _hash_voter_id(AfmTable[TextTable[loc[p].pdf_bytes[1]][1]][1])

\* the scenario of C9: the call ran alone, its request passes every check that
\* the request alone decides, its fingerprint was not in the store, and the
\* store held one vote of its identity in its poll when it started
SecondVoteOfIdentity(p) ==
    /\ Done(p)
    /\ loc[p].alone
    /\ \A check \in {"signature", "text", "token", "identity", "choice"} : ~PureFails(p, check)
    /\ \A r \in loc[p].store0 : r.file_hash # _calculate_file_hash(loc[p].pdf_bytes[1])
    /\ Cardinality(Gate4Matches(loc[p].store0, loc[p].poll_id, IdentityOf(p))) = 1

\* C9: a second document of an identity that has voted in the poll is rejected
\* ALREADY_VOTED with the store unchanged when the update policy is off; when
\* it is on, the call is Accepted, the old fingerprint's record is gone and
\* one record remains for the (poll, identity)
C9_SecondVote ==
    \A p \in Procs :
        SecondVoteOfIdentity(p) =>
            LET old == Gate4Matches(loc[p].store0, loc[p].poll_id, IdentityOf(p))
                now == Gate4Matches(store, loc[p].poll_id, IdentityOf(p))
            IN  IF allow_vote_update
                THEN /\ Accepted(p)
                     /\ \A o \in old : \A r \in store : r.file_hash # o.file_hash
                     /\ Cardinality(now) = 1
                     /\ \A r \in now : r.file_hash = _calculate_file_hash(loc[p].pdf_bytes[1])
                ELSE /\ RejectedWith(p, "already_voted")
                     /\ store = loc[p].store0

\* C9 witness: under the update policy a second document of a voter was accepted
C9_Superseded ==
    \E p \in Procs : SecondVoteOfIdentity(p) /\ allow_vote_update /\ Accepted(p)

\* C10: under the update policy, once every call has run to completion, at
\* most one record exists per (poll id, identity hash)
C10_OnePerIdentityUnderUpdate ==
    (allow_vote_update /\ \A p \in Procs : ~Running(p))
        => \A r1, r2 \in store : SamePair(r1, r2) => r1 = r2

\* the scenario of C11: the call ran alone, its request passes every check the
\* request alone decides, its text holds a bracketed "vote for [X]" with X not
\* blank, and when it started the store held neither its fingerprint nor a
\* vote of its identity in its poll
FreshVote(p) ==
    /\ Done(p)
    /\ loc[p].alone
    /\ \A check \in {"signature", "text", "token", "identity", "choice"} : ~PureFails(p, check)
    /\ LET m == BracketSearch(VOTE_FOR, TextTable[loc[p].pdf_bytes[1]][1])
       IN  m # None /\ Strip(m[1]) # <<>>
    /\ \A r \in loc[p].store0 : r.file_hash # _calculate_file_hash(loc[p].pdf_bytes[1])
    /\ Gate4Matches(loc[p].store0, loc[p].poll_id, IdentityOf(p)) = {}

\* C11: a fresh, trusted, token-bound document of an unseen identity with a
\* well-formed "vote for [X]" is Accepted with identity hash, choice X,
\* fingerprint and signer name, and the store gains exactly one record, with
\* that poll id, fingerprint, identity hash and choice
C11_HappyPath ==
    \A p \in Procs :
        FreshVote(p) =>
            LET b == loc[p].pdf_bytes[1]
                X == Strip(BracketSearch(VOTE_FOR, TextTable[b][1])[1])
                added == store \ loc[p].store0
            IN  /\ Accepted(p)
                /\ result[p].value[1].voter_hash = Some(IdentityOf(p))
                /\ result[p].value[1].vote_choice = Some(X)
                /\ result[p].value[1].file_hash = Some(_calculate_file_hash(b))
                /\ result[p].value[1].signer_name
                      = Some(Parse(b).sigs[1].signing_cert[1].human_friendly)
                /\ loc[p].store0 \subseteq store
                /\ Cardinality(added) = 1
                /\ \A r \in added :
                      /\ r.poll_id = loc[p].poll_id
                      /\ r.file_hash = _calculate_file_hash(b)
                      /\ r.voter_hash = IdentityOf(p)
                      /\ r.vote_choice = X

\* C11 witness: a fresh vote was recorded next to the vote of another identity
C11_FreshVoteRecorded ==
    \E p \in Procs : FreshVote(p) /\ Accepted(p) /\ loc[p].store0 # {}

\* C12: the chosen option of every record of the store is non-empty and at
\* most 200 characters long
C12_ChoiceBounded ==
    \A r \in store : r.vote_choice # <<>> /\ Len(r.vote_choice) <= ChoiceLenLimit

\* ------------------------------------------------------------------------
\* Calls of one method on its own
\* ------------------------------------------------------------------------
\* no request is being served and the votes table is empty
Quiescent ==
    /\ store = {}
    /\ pc = [p \in Procs |-> "idle"]
    /\ loc = [p \in Procs |-> NoLoc]
    /\ result = [p \in Procs |-> NoResult]
    /\ log = [p \in Procs |-> <<>>]
    /\ calls = 0
    /\ accepted = [b \in Payloads |-> 0]

\* a call of method fn with arguments args, not yet made
Pending(fn, args) == [fn |-> fn, input |-> args, output |-> None]

\* the call of fn has returned
Returned_(fn) == probe.fn = fn /\ probe.output # None

\* the call of fn returns value
Return(fn, value) ==
    /\ probe.fn = fn
    /\ probe.output = None
    /\ probe' = [probe EXCEPT !.output = Some(value)]
    /\ UNCHANGED <<store, allow_vote_update, debug, pc, loc, result, log, calls, accepted>>

\* --- _gate1_verify_signature on documents of up to MaxSigs signatures ---
APOSTILLE == ALLOWED_SIGNERS[7]

MALLORY == <<"M", "a", "l", "l", "o", "r", "y">>

\* what validate_pdf_signature can make of one embedded signature
SigKinds ==
    {SigStatus(TRUE, TRUE, Cert(HELLENIC)),
     SigStatus(TRUE, TRUE, Cert(APOSTILLE)),
     SigStatus(TRUE, TRUE, Cert(MALLORY)),
     SigStatus(TRUE, TRUE, Cert(<<>>)),
     SigStatus(FALSE, TRUE, Cert(HELLENIC)),
     SigStatus(TRUE, FALSE, Cert(HELLENIC)),
     SigStatus(TRUE, TRUE, None),
     SigRaises("SignatureValidationError"),
     SigRaises("ValueError")}

MaxSigs == 3

SigLists == UNION {[1..n -> SigKinds] : n \in 0..MaxSigs}

\* the documents PdfFileReader can open, and one whose container is malformed
Gate1Inputs ==
    {Pdf(<<>>, TRUE, sigs, TRUE, <<>>) : sigs \in SigLists}
        \cup {Pdf(<<>>, FALSE, <<>>, TRUE, <<>>)}

InitGate1 ==
    /\ Quiescent
    /\ allow_vote_update = FALSE
    /\ debug = FALSE
    /\ probe \in {Pending("_gate1_verify_signature", <<pdf>>) : pdf \in Gate1Inputs}

CallGate1 ==
    Return("_gate1_verify_signature", _gate1_verify_signature(probe.input[1]))

SpecGate1 == InitGate1 /\ [][CallGate1]_vars

\* the signature is valid, intact and carries a certificate of an allow-listed
\* signer
Trusted(sig) ==
    /\ sig.raises = "None"
    /\ sig.valid /\ sig.intact
    /\ sig.signing_cert # None
    /\ _is_allowed_signer(_extract_signer_name(sig.signing_cert[1]))

\* C13: a document with a trusted signature of a named signer, all of whose
\* earlier signatures make the validator raise (at least one does), passes
\* the signature gate
C13_RaisingSignatureSkipped ==
    Returned_("_gate1_verify_signature") =>
        LET pdf == probe.input[1] IN
        \A k \in 2..Len(pdf.sigs) :
            (/\ pdf.reader_ok
             /\ Trusted(pdf.sigs[k])
             /\ _extract_signer_name(pdf.sigs[k].signing_cert[1]) # <<>>
             /\ \A j \in 1..(k - 1) : pdf.sigs[j].raises # "None")
                => probe.output[1].success

\* C14: no signature gives NO_SIGNATURE; otherwise the gate accepts iff some
\* signature is trusted, with the signer name of the first trusted one,
\* whatever follows it; and gives UNKNOWN_SIGNER if none is
C14_Gate1Result ==
    Returned_("_gate1_verify_signature") =>
        LET pdf == probe.input[1]
            out == probe.output[1]
            T == {k \in 1..Len(pdf.sigs) : Trusted(pdf.sigs[k])}
        IN  pdf.reader_ok =>
              IF pdf.sigs = <<>> THEN ~out.success /\ out.rejection_reason = "no_signature"
              ELSE IF T # {}
              THEN /\ out.success
                   /\ out.signer_name
                        = Some(_extract_signer_name(pdf.sigs[Min(T)].signing_cert[1]))
              ELSE ~out.success /\ out.rejection_reason = "unknown_signer"

\* --- _gate3_verify_token on short texts and tokens, debug mode on and off ---
MaxTextLen == 3

MaxTokenLen == 2

\* the strings of a and b of at most n characters
StringsUpTo(n) == UNION {[1..k -> {"a", "b"}] : k \in 0..n}

InitGate3 ==
    /\ Quiescent
    /\ allow_vote_update = FALSE
    /\ debug \in BOOLEAN
    /\ probe \in {Pending("_gate3_verify_token", <<text, poll_token>>) :
                     text \in StringsUpTo(MaxTextLen), poll_token \in StringsUpTo(MaxTokenLen)}

CallGate3 ==
    Return("_gate3_verify_token", _gate3_verify_token(debug, probe.input[1], probe.input[2]))

SpecGate3 == InitGate3 /\ [][CallGate3]_vars

\* tok occurs verbatim in text
Verbatim(tok, text) ==
    \E i \in 1..(Len(text) - Len(tok) + 1) : SubSeq(text, i, i + Len(tok) - 1) = tok

\* C15: with debug mode off the token gate rejects an empty token with
\* INVALID_TOKEN, a non-empty token that is no verbatim substring of the text
\* with TOKEN_NOT_FOUND, and accepts a non-empty token that is one
C15_TokenGate ==
    (Returned_("_gate3_verify_token") /\ ~debug) =>
        LET text == probe.input[1]
            tok == probe.input[2]
            out == probe.output[1]
        IN  IF tok = <<>> THEN ~out.success /\ out.rejection_reason = "invalid_token"
            ELSE IF ~Verbatim(tok, text)
            THEN ~out.success /\ out.rejection_reason = "token_not_found"
            ELSE out.success /\ out.rejection_reason = NoReason

\* C15 witness: with debug mode off a token whose characters all occur in the
\* text, but not in its order, was rejected
C15_ScrambledTokenRejected ==
    /\ Returned_("_gate3_verify_token")
    /\ ~debug
    /\ probe.input[2] = <<"a", "b">>
    /\ probe.input[1] = <<"b", "a">>
    /\ probe.output[1].rejection_reason = "token_not_found"

\* --- validate() and _gate3_verify_token with settings.DEBUG on ---
\* two documents of one identity, the second without the token in its text
DebugRequests ==
    {Request(b, "pollA", t) : b \in {DocB1.pdf_bytes, DocNoTok.pdf_bytes}, t \in Tokens}

InitDebug ==
    /\ Quiescent
    /\ allow_vote_update \in BOOLEAN
    /\ debug = TRUE
    /\ probe \in {Pending("_gate3_verify_token", <<text, poll_token>>) :
                     text \in StringsUpTo(1), poll_token \in StringsUpTo(1)}

NextDebug ==
    \/ \E p \in Procs :
          \/ Call(p, DebugRequests)
          \/ StepGate2(p)
          \/ StepGate4Query(p)
          \/ StepGate4Commit(p)
          \/ StepRecordVote(p)
          \/ Respond(p)
    \/ CallGate3

SpecDebug == InitDebug /\ [][NextDebug]_vars

\* the token check of validate() is the fourth check of its log
TokenChecked(p) == Len(log[p]) >= Pos("token")

\* C16 as claimed: with debug mode on the token gate succeeds for every token
\* and every text, and validate is never rejected INVALID_TOKEN or
\* TOKEN_NOT_FOUND
C16_DebugAcceptsAnyToken ==
    debug =>
        /\ Returned_("_gate3_verify_token") => probe.output[1].success
        /\ \A p \in Procs :
              ~RejectedWith(p, "invalid_token") /\ ~RejectedWith(p, "token_not_found")

\* C16 as amended: with debug mode on the token gate succeeds for every
\* non-empty token whatever the text and rejects the empty token with
\* INVALID_TOKEN; validate is never rejected TOKEN_NOT_FOUND, passes the token
\* check whenever it reaches it with a non-empty token, and is rejected
\* INVALID_TOKEN only for an empty token
C16_DebugAcceptsNonEmptyToken ==
    debug =>
        /\ Returned_("_gate3_verify_token") =>
              IF probe.input[2] = <<>>
              THEN ~probe.output[1].success
                   /\ probe.output[1].rejection_reason = "invalid_token"
              ELSE probe.output[1].success
        /\ \A p \in Procs :
              /\ ~RejectedWith(p, "token_not_found")
              /\ RejectedWith(p, "invalid_token") => loc[p].poll_token = Some(<<>>)
              /\ (TokenChecked(p) /\ loc[p].poll_token # Some(<<>>))
                    => log[p][Pos("token")].ok

\* C16 witness: with debug mode on a document whose text does not hold the
\* token of the request was accepted
C16_AbsentTokenAccepted ==
    \E p \in Procs :
        /\ debug
        /\ Accepted(p)
        /\ loc[p].poll_token # Some(<<>>)
        /\ ~StrIn(loc[p].poll_token[1], TextTable[loc[p].pdf_bytes[1]][1])

\* --- validate_identity() next to validate(), under every setting ---
\* validate_identity(pdf_bytes)
validate_identity(pdf) ==
    LET gate1_result == _gate1_verify_signature(pdf) IN
    IF ~gate1_result.success THEN gate1_result
    ELSE IF ~pdf.text_ok
    THEN ValidationResult(FALSE, "pdf_read_error", Msg("Failed to extract text from PDF"),
                          None, None, None, None)
    ELSE LET afm == _extract_afm(_extract_text(pdf)) IN
         IF afm = None \/ afm[1] = <<>>
         THEN ValidationResult(FALSE, "afm_not_found",
                               Msg("Could not find AFM/Tax ID in the declaration"),
                               None, None, None, None)
         ELSE ValidationResult(TRUE, NoReason, Msg("Identity verified successfully"),
                               Some(_hash_voter_id(afm[1])), None, None,
                               gate1_result.signer_name)

\* validate_identity tabulated once over the payloads callers may send
IdentityTable == [b \in Payloads |-> validate_identity(Parse(b))]

\* an identity check that also refuses an identity with a recorded vote
verify_identity_dedup(pdf_bytes) ==
    LET r == IdentityTable[pdf_bytes]
        voted == r.success /\ \E v \in store : Some(v.voter_hash) = r.voter_hash
    IN  /\ probe' = [fn |-> "validate_identity", input |-> <<pdf_bytes>>,
                     output |-> Some(IF voted
                                     THEN ValidationResult(FALSE, "already_voted",
                                              Msg("You have already voted in this poll"),
                                              r.voter_hash, None, None, None)
                                     ELSE r)]
        /\ UNCHANGED <<store, allow_vote_update, debug, pc, loc, result, log, calls, accepted>>

\* main.py verify_identity: the whole request; validate_identity() touches no
\* shared state, so the request is one step
verify_identity(pdf_bytes) ==
    /\ probe' = [fn |-> "validate_identity", input |-> <<pdf_bytes>>,
                 output |-> Some(IdentityTable[pdf_bytes])]
    /\ UNCHANGED <<store, allow_vote_update, debug, pc, loc, result, log, calls, accepted>>

\* two documents of one identity
IdentityRequests == {Request(b, "pollA", TOK1) : b \in {DocA1.pdf_bytes, DocA2.pdf_bytes}}

InitIdentity ==
    /\ Quiescent
    /\ allow_vote_update \in BOOLEAN
    /\ debug \in BOOLEAN
    /\ probe = NoProbe

NextIdentity ==
    \/ \E p \in Procs :
          \/ Call(p, IdentityRequests)
          \/ StepGate2(p)
          \/ StepGate4Query(p)
          \/ StepGate4Commit(p)
          \/ StepRecordVote(p)
          \/ Respond(p)
    \/ \E b \in Payloads : verify_identity(b)

SpecIdentity == InitIdentity /\ [][NextIdentity]_vars

IdentityReasons ==
    {"no_signature", "unknown_signer", "invalid_signature", "pdf_read_error", "afm_not_found"}

\* C17: a call of validate_identity leaves the store as it is, and its outcome
\* is decided by the document alone, whatever the store, the settings and the
\* requests being served: the rejection of the signature gate if that fails,
\* else PDF_READ_ERROR if the text cannot be read, else AFM_NOT_FOUND if the
\* text holds no identity, else success with the identity hash and the signer
C17_IdentityOnly ==
    [][(probe' # probe) =>
          LET b == probe'.input[1]
              out == probe'.output[1]
          IN  /\ store' = store
              /\ ~out.success => out.rejection_reason \in IdentityReasons
              /\ IF ~Gate1Table[b].success THEN out = Gate1Table[b]
                 ELSE IF TextTable[b] = None
                 THEN ~out.success /\ out.rejection_reason = "pdf_read_error"
                 ELSE IF AfmTable[TextTable[b][1]] = None
                 THEN ~out.success /\ out.rejection_reason = "afm_not_found"
                 ELSE /\ out.success
                      /\ out.voter_hash = Some(_hash_voter_id(AfmTable[TextTable[b][1]][1]))
                      /\ out.signer_name = Gate1Table[b].signer_name]_vars

\* C17 witness: with the update policy off, the identity of a recorded vote
\* was verified again, successfully
C17_VoterVerified ==
    /\ Returned_("validate_identity")
    /\ ~allow_vote_update
    /\ probe.output[1].success
    /\ \E v \in store : Some(v.voter_hash) = probe.output[1].voter_hash

\* --- every method that returns a ValidationResult, next to validate() ---
\* the documents the methods are called on
OutcomePayloads ==
    {DocA1.pdf_bytes, DocNoSig.pdf_bytes, DocNoAfm.pdf_bytes, DocUnreadable.pdf_bytes}

\* method fn, called with args, returns value
Answer(fn, args, value) ==
    /\ probe' = [fn |-> fn, input |-> args, output |-> Some(value)]
    /\ UNCHANGED <<allow_vote_update, debug, pc, loc, result, log, calls, accepted>>

call_gate1(b) ==
    /\ Answer("_gate1_verify_signature", <<b>>, Gate1Table[b])
    /\ UNCHANGED store

call_gate2(b) ==
    /\ Answer("_gate2_check_uniqueness", <<b>>,
              _gate2_check_uniqueness(store, _calculate_file_hash(b)))
    /\ UNCHANGED store

call_gate3(b, poll_token) ==
    /\ TextTable[b] # None
    /\ Answer("_gate3_verify_token", <<b, poll_token>>,
              _gate3_verify_token(debug, TextTable[b][1], poll_token))
    /\ UNCHANGED store

\* _gate4_verify_identity(text, poll_id) called on the text of b: its result,
\* and its delete-and-commit under the update policy
call_gate4(b, poll_id) ==
    /\ TextTable[b] # None
    /\ LET afm == AfmTable[TextTable[b][1]] IN
       IF afm = None
       THEN /\ Answer("_gate4_verify_identity", <<b>>,
                      ValidationResult(FALSE, "afm_not_found",
                                       Msg("Could not find AFM/Tax ID in the declaration"),
                                       None, None, None, None))
            /\ UNCHANGED store
       ELSE LET voter_hash == _hash_voter_id(afm[1])
                matches == Gate4Matches(store, poll_id, voter_hash)
            IN  IF matches = {}
                THEN /\ Answer("_gate4_verify_identity", <<b>>,
                               ValidationResult(TRUE, NoReason, Msg("Voter identity verified"),
                                                Some(voter_hash), None, None, None))
                     /\ UNCHANGED store
                ELSE IF allow_vote_update
                THEN /\ \E existing_vote \in matches :
                            store' = DeleteById(store, existing_vote.id)
                     /\ Answer("_gate4_verify_identity", <<b>>,
                               ValidationResult(TRUE, NoReason,
                                                Msg("Previous vote will be updated"),
                                                Some(voter_hash), None, None, None))
                ELSE /\ Answer("_gate4_verify_identity", <<b>>,
                               ValidationResult(FALSE, "already_voted",
                                                Msg("You have already voted in this poll"),
                                                Some(voter_hash), None, None, None))
                     /\ UNCHANGED store

\* one server process serves the requests, one after the other
NextOutcomes ==
    \/ \E p \in {1} :
          \/ Call(p, IdentityRequests)
          \/ StepGate2(p)
          \/ StepGate4Query(p)
          \/ StepGate4Commit(p)
          \/ StepRecordVote(p)
          \/ Respond(p)
    \/ \E b \in OutcomePayloads :
          \/ verify_identity(b)
          \/ call_gate1(b)
          \/ call_gate2(b)
          \/ \E poll_token \in Tokens : call_gate3(b, poll_token)
          \/ call_gate4(b, "pollA")

SpecOutcomes == InitIdentity /\ [][NextOutcomes]_vars

\* success is true exactly when there is no rejection reason, and a rejection
\* reason is one of the taxonomy
Discriminated(r) ==
    /\ r.success <=> r.rejection_reason = NoReason
    /\ ~r.success => r.rejection_reason \in RejectionReason

\* C18: every result returned by validate, by validate_identity or by a gate
\* is successful exactly when it carries no rejection reason
C18_OutcomeDiscriminated ==
    /\ \A p \in Procs : Returns(p) => Discriminated(result[p].value[1])
    /\ probe.output # None => Discriminated(probe.output[1])

\* C18 witness: under the update policy the identity gate, called on its own,
\* found a vote of the identity and succeeded
C18_Gate4Replaced ==
    /\ Returned_("_gate4_verify_identity")
    /\ probe.output[1].success
    /\ probe.output[1].message = Msg("Previous vote will be updated")

\* --- validate() against a store whose queries can fail ---
\* the query of gate 2 or of gate 4 raises (the database is locked or
\* unreachable): neither the gate nor validate() catches the exception
QueryRaises(p) ==
    /\ pc[p] \in {"gate2", "gate4"}
    /\ pc' = [pc EXCEPT ![p] = "done"]
    /\ result' = [result EXCEPT ![p] = Raised("OperationalError")]
    /\ log' = [log EXCEPT ![p] =
                  Append(@, Entry(IF pc[p] = "gate2" THEN "fingerprint" ELSE "identity",
                                  FALSE, "read"))]
    /\ UNCHANGED <<store, allow_vote_update, debug, loc, calls, accepted, probe>>

\* documents of one identity, and one whose text cannot be extracted
FaultRequests ==
    {Request(b, "pollA", TOK1) :
        b \in {DocA1.pdf_bytes, DocA2.pdf_bytes, DocUnreadable.pdf_bytes}}

NextFaults ==
    \E p \in Procs :
        \/ Call(p, FaultRequests)
        \/ StepGate2(p)
        \/ StepGate4Query(p)
        \/ StepGate4Commit(p)
        \/ StepRecordVote(p)
        \/ Respond(p)
        \/ QueryRaises(p)

SpecFaults == Init /\ [][NextFaults]_vars

\* C19: every call of validate ends with a structured outcome of the taxonomy
\* and never with an exception; a failed text extraction gives PDF_READ_ERROR
C19_NoExceptionEscapes ==
    \A p \in Procs :
        Done(p) =>
            /\ result[p].raised = "None"
            /\ result[p].value # None
            /\ Rejected(p) => result[p].value[1].rejection_reason \in RejectionReason
            /\ (log[p][Len(log[p])].check = "text") => RejectedWith(p, "pdf_read_error")

\* --- _extract_vote_choice on texts made of choice phrases ---
\* phrases for each of the four patterns, with and without a usable choice
ChoicePhrases ==
    {VOTE_FOR \o <<"A", "]">>,
     VOTE_FOR \o <<" ", "]">>,
     PSIFIZO_BRACKET \o <<"B", "]">>,
     PSIFIZO_BRACKET \o <<"]">>,
     PSIFIZO \o <<":", " ", "Γ">>,
     PSIFIZO \o <<" ">> \o GIA \o <<"Δ", ".">>,
     <<"x">>}

MaxPhrases == 2

\* the texts of at most MaxPhrases phrases, one per line
ChoiceTexts ==
    UNION {{Join(<<"\n">>, ps) : ps \in [1..n -> ChoicePhrases]} : n \in 0..MaxPhrases}

\* texts whose candidate is at or over the length limit
LongChoiceTexts ==
    {PSIFIZO \o <<":", " ">> \o [i \in 1..ChoiceLenLimit |-> "z"],
     VOTE_FOR \o LongChoice \o <<"]", "\n">> \o PSIFIZO_BRACKET \o <<"B", "]">>}

InitChoice ==
    /\ Quiescent
    /\ allow_vote_update = FALSE
    /\ debug = FALSE
    /\ probe \in {Pending("_extract_vote_choice", <<text>>) :
                     text \in ChoiceTexts \cup LongChoiceTexts}

CallChoice == Return("_extract_vote_choice", _extract_vote_choice(probe.input[1]))

SpecChoice == InitChoice /\ [][CallChoice]_vars

\* the candidate is usable: not empty and at most 200 characters once trimmed
Usable(m) == m # None /\ Strip(m[1]) # <<>> /\ Len(Strip(m[1])) <= ChoiceLenLimit

\* C20: the result is the trimmed candidate of the first of the four
\* strategies, in priority order, whose candidate is usable; a strategy whose
\* candidate is empty or over-long is passed over; none if no strategy has a
\* usable candidate
C20_FirstUsableWins ==
    Returned_("_extract_vote_choice") =>
        LET text == probe.input[1]
            m1 == BracketSearch(VOTE_FOR, text)
            m2 == BracketSearch(PSIFIZO_BRACKET, text)
            m3 == GrAltSearch(text)
            m4 == GrOtiSearch(text)
        IN  probe.output[1] =
                IF Usable(m1) THEN Some(Strip(m1[1]))
                ELSE IF Usable(m2) THEN Some(Strip(m2[1]))
                ELSE IF Usable(m3) THEN Some(Strip(m3[1]))
                ELSE IF Usable(m4) THEN Some(Strip(m4[1]))
                ELSE None

\* --- validate() in two polls, next to validate_identity() ---
\* two documents of one identity in either poll, one of another identity,
\* and one request without a token
PollRequests ==
    {Request(b, poll_id, TOK1) : b \in {DocA1.pdf_bytes, DocA2.pdf_bytes}, poll_id \in Polls}
        \cup {Request(DocB1.pdf_bytes, "pollA", TOK1), Request(DocA1.pdf_bytes, "pollB", <<>>)}

\* the documents whose identity is verified on its own
PollPayloads == {DocA2.pdf_bytes, DocB1.pdf_bytes, DocNoAfm.pdf_bytes}

NextPolls ==
    \/ \E p \in Procs :
          \/ Call(p, PollRequests)
          \/ StepGate2(p)
          \/ StepGate4Query(p)
          \/ StepGate4Commit(p)
          \/ StepRecordVote(p)
          \/ Respond(p)
    \/ \E b \in PollPayloads : verify_identity(b)

SpecPolls == Init /\ [][NextPolls]_vars

\* the identity secret in the text of payload b, if it has one
SecretOf(b) == IF TextTable[b] = None THEN None ELSE AfmTable[TextTable[b][1]]

\* the payload a record was made from
PayloadOf(r) == CHOOSE b \in Payloads : _calculate_file_hash(b) = r.file_hash

\* nine digits
IsSecret(s) == Len(s) = 9 /\ \A k \in 1..Len(s) : s[k] \in Digits

\* h is the salted digest of the secret of payload b, and no secret itself
HashOfSecret(h, b) ==
    /\ SecretOf(b) # None
    /\ h = Sha256Hex(SecretOf(b)[1] \o SALT_KEY)
    /\ h # SecretOf(b)[1]
    /\ ~IsSecret(h)

\* C21: the identity field of every record of the store, and the voter_hash
\* of every outcome of validate and of validate_identity that carries one, is
\* the salted hash of the secret extracted from the document, and never the
\* nine digits themselves
C21_SecretNeverStored ==
    /\ \A r \in store : HashOfSecret(r.voter_hash, PayloadOf(r))
    /\ \A p \in Procs :
          (Returns(p) /\ result[p].value[1].voter_hash # None)
              => HashOfSecret(result[p].value[1].voter_hash[1], loc[p].pdf_bytes[1])
    /\ (Returned_("validate_identity") /\ probe.output[1].voter_hash # None)
          => HashOfSecret(probe.output[1].voter_hash[1], probe.input[1])

\* C21 witness: a vote is on record, validate returned an identity hash with
\* a rejection, and validate_identity returned one
C21_HashesReturned ==
    /\ store # {}
    /\ \E p \in Procs : RejectedWith(p, "already_voted")
                          /\ result[p].value[1].voter_hash # None
    /\ Returned_("validate_identity")
    /\ probe.output[1].success

\* --- the message of the signature gate (SpecGate1) ---
\* the signature validated without raising, is valid and intact, and carries
\* a certificate
Named(sig) == sig.raises = "None" /\ sig.valid /\ sig.intact /\ sig.signing_cert # None

\* the signatures the loop examined: up to the first one of an allow-listed
\* signer, where the loop breaks, or all of them
Examined(sigs) ==
    LET T == {k \in 1..Len(sigs) : Trusted(sigs[k])}
    IN  SubSeq(sigs, 1, IF T = {} THEN Len(sigs) ELSE Min(T))

\* the signer names of the valid and intact signatures examined, in document order
NamesExamined(sigs) ==
    LET sel == SelectSeq(Examined(sigs), Named)
    IN  [i \in 1..Len(sel) |-> _extract_signer_name(sel[i].signing_cert[1])]

\* C22: when the signature gate rejects with UNKNOWN_SIGNER, its message
\* lists the signer name of every valid and intact signature examined, in
\* document order and separated by ", ", or says None when there was none
C22_MessageListsSigners ==
    (Returned_("_gate1_verify_signature")
        /\ probe.output[1].rejection_reason = "unknown_signer") =>
        LET names == NamesExamined(probe.input[1].sigs) IN
        probe.output[1].message =
            MsgWith("PDF signature is not from a recognized government authority. Found: ",
                    IF names = <<>> THEN <<"N", "o", "n", "e">>
                    ELSE Join(<<",", " ">>, names))

\* C22 witness: the gate rejected a document of three signatures with
\* UNKNOWN_SIGNER after it found two different signer names among them
C22_TwoNamesListed ==
    /\ Returned_("_gate1_verify_signature")
    /\ probe.output[1].rejection_reason = "unknown_signer"
    /\ LET sigs == probe.input[1].sigs
           names == NamesExamined(sigs)
       IN  /\ Len(names) = 2
           /\ names[1] # names[2]
           /\ Len(sigs) = 3

\* --- _is_allowed_signer on fragments and extensions of allowed names ---
\* str.lower() of a name without a capital sigma
Lower(s) == [i \in 1..Len(s) |-> LowerChar(s[i])]

\* the contiguous fragments of s, the empty one included
FragmentsOf(s) == {SubSeq(s, i, j) : i \in 1..(Len(s) + 1), j \in 0..Len(s)}

PSIFIAKIS == SubSeq(ALLOWED_SIGNERS[6], 11, 18)

\* fragments of two allowed names in three letter cases, allowed names inside a
\* longer subject, and names that are neither
SignerNames ==
    LET frags == FragmentsOf(HELLENIC) \cup FragmentsOf(PSIFIAKIS)
        subjects == {<<"C", "N", "=">> \o ALLOWED_SIGNERS[k] \o <<",", " ", "C", "=", "G", "R">> :
                        k \in 1..Len(ALLOWED_SIGNERS)}
        others == {MALLORY,
                   <<"H", "e", "l", "l", "e", "n", "i", "c", " ", "R", "e", "p", "u", "b", "l", "i", "k">>,
                   <<"R", "e", "p", "u", "b", "l", "i", "c", " ", "H", "e", "l", "l", "e", "n", "i", "c">>,
                   <<"l", "l", "l">>,
                   <<"Ε", "Λ", "Λ", "Η", "Ν", "Ι", "Κ", "Η">>}
    IN  frags \cup {Upper(f) : f \in frags} \cup {Lower(f) : f \in frags}
            \cup subjects \cup {Lower(x) : x \in subjects} \cup others

InitSigner ==
    /\ Quiescent
    /\ allow_vote_update = FALSE
    /\ debug = FALSE
    /\ probe \in {Pending("_is_allowed_signer", <<name>>) : name \in SignerNames}

CallSigner == Return("_is_allowed_signer", _is_allowed_signer(probe.input[1]))

SpecSigner == InitSigner /\ [][CallSigner]_vars

\* the same letter, whatever its case
SameLetter(a, b) == a = b \/ UpperChar(a) = UpperChar(b)

\* x is a substring of y, letter case ignored
SubstringIgnoringCase(x, y) ==
    \E i \in 1..(Len(y) - Len(x) + 1) : \A k \in 1..Len(x) : SameLetter(x[k], y[i + k - 1])

\* C23: _is_allowed_signer(name) is true exactly when, letter case ignored,
\* some allow-list entry is a substring of name or name is a substring of some
\* allow-list entry; so the empty name and every fragment of an allowed name
\* is trusted
C23_SymmetricSubstring ==
    Returned_("_is_allowed_signer") =>
        LET name == probe.input[1]
            allowed == {ALLOWED_SIGNERS[k] : k \in 1..Len(ALLOWED_SIGNERS)}
        IN  /\ probe.output[1] =
                  \E f \in allowed :
                      SubstringIgnoringCase(f, name) \/ SubstringIgnoringCase(name, f)
            /\ name = <<>> => probe.output[1]
            /\ (\E f \in allowed : name \in FragmentsOf(f)) => probe.output[1]

\* C23 witness: a signer name of one letter of an allowed name was trusted
C23_OneLetterTrusted ==
    /\ Returned_("_is_allowed_signer")
    /\ probe.input[1] = <<"e">>
    /\ probe.output[1] = TRUE

\* --- _extract_afm on a label, a separator and a run of digits ---
\* the longest digit run of the texts
MaxDigits == 10

\* the first n of the digits 1234567890...
DigitRun(n) == [i \in 1..n |-> <<"1", "2", "3", "4", "5", "6", "7", "8", "9", "0">>[((i - 1) % 10) + 1]]

\* a label in one of three letter cases, a separator, a run of 8 to MaxDigits
\* digits, and the end of the text or a further line
AfmTexts ==
    LET labels == {AFM_LABELS[k] : k \in 1..Len(AFM_LABELS)}
        cased == labels \cup {Upper(l) : l \in labels} \cup {Lower(l) : l \in labels}
        seps == {<<>>, <<":">>, <<":", " ">>, <<" ">>}
        rests == {<<>>, <<"\n", "x">>}
    IN  {l \o sep \o DigitRun(n) \o rest :
            l \in cased, sep \in seps, n \in 8..MaxDigits, rest \in rests}

InitAfm ==
    /\ Quiescent
    /\ allow_vote_update = FALSE
    /\ debug = FALSE
    /\ probe \in {Pending("_extract_afm", <<text>>) : text \in AfmTexts}

CallAfm == Return("_extract_afm", _extract_afm(probe.input[1]))

SpecAfm == InitAfm /\ [][CallAfm]_vars

\* the digits that follow the label and the separator at the start of t, up
\* to the first character that is no digit
DigitsAfterLabel(t) ==
    LET k == CHOOSE x \in 1..Len(AFM_LABELS) : OccursAtIgnoreCase(AFM_LABELS[x], t, 1)
        j == SkipSep(t, Len(AFM_LABELS[k]) + 1)
        e == Min({x \in j..(Len(t) + 1) : x > Len(t) \/ t[x] \notin Digits})
    IN  SubSeq(t, j, e - 1)

\* C24: a label in any letter case followed by exactly nine digits gives
\* those nine digits; a label followed by a run of fewer or of more than nine
\* digits gives no identity
C24_ExactlyNineDigits ==
    Returned_("_extract_afm") =>
        LET run == DigitsAfterLabel(probe.input[1]) IN
        probe.output[1] = IF Len(run) = 9 THEN Some(run) ELSE None

\* --- the pipeline as a state machine (Spec) ---
\* START, then one state per check passed, COMMITTED being the last
PipelineStates ==
    <<"START", "SIGNATURE_OK", "FINGERPRINT_OK", "TEXT_EXTRACTED", "TOKEN_OK", "IDENTITY_OK",
      "CHOICE_EXTRACTED", "COMMITTED">>

\* the states handler p has visited, in order: one more for every check passed
Visited(p) ==
    LET passed == Cardinality({i \in 1..Len(log[p]) : log[p][i].ok})
    IN  SubSeq(PipelineStates, 1, passed + 1)

\* C25: every call of validate visits START, SIGNATURE_OK, FINGERPRINT_OK,
\* TEXT_EXTRACTED, TOKEN_OK, IDENTITY_OK, CHOICE_EXTRACTED in this order, each
\* at most once and never going back, and ends in exactly one terminal state:
\* COMMITTED, reached from CHOICE_EXTRACTED only, or REJECTED with a reason
C25_LinearPipeline ==
    \A p \in Procs :
        /\ Len(log[p]) <= Len(CheckOrder)
        /\ \A i \in 1..Len(log[p]) : log[p][i].check = CheckOrder[i]
        /\ \A i \in 1..(Len(log[p]) - 1) : log[p][i].ok
        /\ Done(p) =>
              /\ Accepted(p) \/ Rejected(p)
              /\ Accepted(p) <=> Visited(p) = PipelineStates
              /\ Rejected(p) =>
                    /\ result[p].value[1].rejection_reason \in RejectionReason
                    /\ Visited(p)[Len(Visited(p))] # "COMMITTED"

\* --- the votes table under validate() and validate_identity() (SpecPolls) ---
\* C26: every step that changes the store inserts one whole new record or
\* deletes one whole existing record, and a record that is in the store before
\* and after a step has the same poll id, identity hash, fingerprint and choice
C26_NoInPlaceChange ==
    [][/\ \A r1 \in store : \A r2 \in store' : r1.id = r2.id => r1 = r2
       /\ store' # store =>
             \/ \E v \in store' \ store : store' = store \cup {v}
             \/ \E r \in store : store' = store \ {r}]_vars

\* C26 witness: under the update policy a call deleted the vote of its
\* identity and was accepted with a new one, and validate_identity was called
C26_RecordReplaced ==
    /\ \E p \in Procs :
          /\ Accepted(p)
          /\ log[p][Pos("identity")] = Entry("identity", TRUE, "read+write")
    /\ Returned_("validate_identity")

\* --- the identity hash as a function of the secret (SpecPolls) ---
\* the identity hashes in sight, each with the document it was computed from:
\* those of the records, of the calls of validate that reached gate 4, of the
\* outcomes of validate, and of the outcome of validate_identity
HashesInSight ==
    {<<r.voter_hash, PayloadOf(r)>> : r \in store}
        \cup {<<loc[p].voter_hash[1], loc[p].pdf_bytes[1]>> :
                 p \in {q \in Procs : loc[q].voter_hash # None}}
        \cup {<<result[p].value[1].voter_hash[1], loc[p].pdf_bytes[1]>> :
                 p \in {q \in Procs : Returns(q) /\ result[q].value[1].voter_hash # None}}
        \cup (IF Returned_("validate_identity") /\ probe.output[1].voter_hash # None
              THEN {<<probe.output[1].voter_hash[1], probe.input[1]>>}
              ELSE {})

\* C27: the same secret gives the same identity hash in every call, of either
\* entry point and in every poll, and distinct secrets give distinct hashes;
\* so the lookup of gate 4 finds a record exactly when the record was made
\* from a document with the secret of the submission, in the poll of the
\* submission
C27_HashIsFunctionOfSecret ==
    /\ \A x, y \in HashesInSight : (x[1] = y[1]) <=> (SecretOf(x[2]) = SecretOf(y[2]))
    /\ \A p \in Procs :
          loc[p].voter_hash # None =>
              Gate4Matches(store, loc[p].poll_id, loc[p].voter_hash[1])
                  = {r \in store : /\ SecretOf(PayloadOf(r)) = SecretOf(loc[p].pdf_bytes[1])
                                   /\ r.poll_id = loc[p].poll_id}

\* C27 witness: one identity has a record in each poll, made from two
\* documents, another identity has a record too, and validate_identity
\* returned the hash of the first
C27_SameSecretTwoPolls ==
    /\ \E r1, r2, r3 \in store :
          /\ r1.poll_id # r2.poll_id
          /\ r1.file_hash # r2.file_hash
          /\ r1.voter_hash = r2.voter_hash
          /\ r3.voter_hash # r1.voter_hash
    /\ Returned_("validate_identity")
    /\ \E r \in store : probe.output[1].voter_hash = Some(r.voter_hash)

\* --- who creates records (Spec) ---
\* the call of handler p has passed all six checks
AllChecksPassed(p) ==
    /\ Len(log[p]) = Len(CheckOrder) - 1
    /\ \A i \in 1..Len(log[p]) : log[p][i].ok

\* C28: a step that adds to the store adds one record, is the commit of a
\* call of validate that has passed all six checks and is Accepted by it, and
\* the record has the poll id, fingerprint, identity hash and choice of that
\* call; so a call inserts at most one record, the fingerprint of a rejected
\* submission is not in the store unless an accepted call put it there, and
\* no call is rejected DUPLICATE_FILE for bytes that were never accepted
C28_OnlyAcceptedCallsInsert ==
    [][/\ ~(store' \subseteq store) =>
             \E p \in Procs :
                 /\ pc[p] = "record" /\ pc'[p] = "done"
                 /\ AllChecksPassed(p)
                 /\ result'[p].raised = "None" /\ result'[p].value[1].success
                 /\ \E v \in store' \ store :
                       /\ store' = store \cup {v}
                       /\ v.poll_id = loc[p].poll_id
                       /\ v.file_hash = _calculate_file_hash(loc[p].pdf_bytes[1])
                       /\ v.voter_hash = IdentityOf(p)
                       /\ v.vote_choice = ChoiceTable[TextTable[loc[p].pdf_bytes[1]][1]][1]
       /\ \A r \in store' : accepted'[PayloadOf(r)] > 0
       /\ \A p \in Procs :
             (pc'[p] = "done" /\ result'[p].raised = "None"
                 /\ result'[p].value[1].rejection_reason = "duplicate_file")
                   => accepted'[loc'[p].pdf_bytes[1]] > 0]_vars

\* C28 witness: a submission was rejected for its missing token, and the same
\* bytes, sent again afterwards with the token, were accepted
C28_ResubmissionAccepted ==
    \E p, q \in Procs :
        /\ RejectedWith(p, "invalid_token")
        /\ Accepted(q)
        /\ loc[q].alone
        /\ loc[q].pdf_bytes = loc[p].pdf_bytes

FingerprintOnRecord(db, p) ==
    \E r \in db : r.file_hash = _calculate_file_hash(loc[p].pdf_bytes[1])

\* C30: a call of validate whose fingerprint lookup runs while a record with
\* the fingerprint of its bytes exists is rejected DUPLICATE_FILE there,
\* whatever its poll and its token, and the store stays as it is; a call that
\* ran alone and started with such a record in the store ends rejected
\* DUPLICATE_FILE with the store as it was
C30_ReplayRejectedInEveryPoll ==
    [][\A p \in Procs :
          /\ (pc[p] = "gate2" /\ pc'[p] # "gate2" /\ FingerprintOnRecord(store, p))
                => /\ pc'[p] = "done"
                   /\ result'[p].raised = "None"
                   /\ ~result'[p].value[1].success
                   /\ result'[p].value[1].rejection_reason = "duplicate_file"
                   /\ store' = store
          /\ (Done(p) /\ loc[p].alone /\ FingerprintOnRecord(loc[p].store0, p))
                => RejectedWith(p, "duplicate_file") /\ store = loc[p].store0]_vars

\* C30 witness: bytes on record in one poll were sent to the other poll, in
\* which nobody has voted, without a token, and rejected DUPLICATE_FILE
C30_ReplayInOtherPoll ==
    \E p \in Procs :
        /\ RejectedWith(p, "duplicate_file")
        /\ loc[p].poll_id = "pollB"
        /\ loc[p].poll_token = Some(<<>>)
        /\ store # {}
        /\ \A r \in store : r.poll_id = "pollA"

====
